---- MODULE Spec2Model ----
(***************************************************************************)
(* The streaming transport (useSSE) and the conversation engine            *)
(* (useConversation) of forge-ui as one state machine.                     *)
(*                                                                         *)
(* The engine's refs (conversation, isStreaming, currentResponse,          *)
(* currentThinking, toolCalls) and the transport's refs (status,           *)
(* abortController) are the variables.  Every call of connectPost is a     *)
(* connection with a position: awaiting fetch, awaiting reader.read(),     *)
(* aborted with its rejection still to be delivered, or done.  JavaScript  *)
(* runs each handler to completion, so every action below is one           *)
(* synchronous run of the code between two suspension points.              *)
(*                                                                         *)
(* Spec is the engine with its transport, reading bodies as framed events. *)
(* SpecReader is the read loop of connectPost over the characters of one   *)
(* body, cut into chunks anywhere.  SpecDebug is the debug event buffer,   *)
(* which no other state reads, on its own.                                 *)
(***************************************************************************)
EXTENDS Integers, Sequences, FiniteSets, TLC

\* ------------------------------------------------------------------ bounds
\* connectPost calls (generations started) in one behaviour
MaxConn == 2
\* chunks read from response bodies in one behaviour
MaxReads == 4

\* ------------------------------------------------------------- value sets
Contents == {"hi"}
ToolIds == {"t1", "t2"}
Undefined == "undefined"

NoUsage == [present |-> FALSE, prompt_tokens |-> 0, completion_tokens |-> 0]
Usages == {NoUsage, [present |-> TRUE, prompt_tokens |-> 5, completion_tokens |-> 1]}

\* One framed SSE event: its type, whether JSON.parse accepts its data line,
\* and the payload fields the handlers read.
\* text is the field the handler reads (cumulative, result, response, message);
\* delta is the increment a token or thinking event carries beside it
Ev(type, ok, id, text, status, is_error, usage) ==
  [type |-> type, ok |-> ok, id |-> id, text |-> text, status |-> status,
   is_error |-> is_error, usage |-> usage, delta |-> Undefined]

WithDelta(ev, delta) == [ev EXCEPT !.delta = delta]

\* token{token: "Hi", cumulative: "Hi"} and token{token: "!", cumulative: "Hi!"}
TokenEvents ==
  {WithDelta(Ev("token", ok, Undefined, "Hi", Undefined, Undefined, NoUsage), "Hi") :
     ok \in BOOLEAN}
    \cup {WithDelta(Ev("token", TRUE, Undefined, "Hi!", Undefined, Undefined, NoUsage), "!")}
ThinkingEvents ==
  {WithDelta(Ev("thinking", TRUE, Undefined, "hm", Undefined, Undefined, NoUsage), "hm")}
ToolCallEvents ==
  {Ev("tool_call", TRUE, id, Undefined, st, Undefined, NoUsage) :
     id \in ToolIds, st \in {"executing"}}
ToolResultEvents ==
  {Ev("tool_result", TRUE, id, "res", Undefined, e, NoUsage) :
     id \in ToolIds, e \in {"true"}}
CompleteEvents ==
  {Ev("complete", ok, Undefined, "Done", Undefined, Undefined, u) :
     ok \in BOOLEAN, u \in Usages}
ErrorEvents == {Ev("error", ok, Undefined, "slow down", Undefined, Undefined, NoUsage) : ok \in BOOLEAN}
PingEvents == {Ev("ping", TRUE, Undefined, Undefined, Undefined, Undefined, NoUsage)}
OtherEvents == {Ev("metrics", TRUE, Undefined, Undefined, Undefined, Undefined, NoUsage)}

Events ==
  TokenEvents \cup ThinkingEvents \cup ToolCallEvents \cup ToolResultEvents
    \cup CompleteEvents \cup ErrorEvents \cup PingEvents \cup OtherEvents

\* The events one reader.read() frames: one event, or a terminal event or
\* an event of an unknown type with more of the stream behind it in the same
\* chunk.
Chunks ==
  {<<e>> : e \in Events}
    \cup {<<e, f>> : e \in {x \in CompleteEvents \cup ErrorEvents : x.ok} \cup OtherEvents,
                     f \in {x \in TokenEvents \cup ErrorEvents : x.ok}}

\* Why a connection fails outside an abort: the thrown Error's message.
HttpError == "HTTP error: 500"
NullBody == "Response body is null"
NetworkError == "Failed to fetch"

VARIABLES
  conversation,      \* ref<Conversation | null>
  isStreaming,
  currentResponse,
  currentThinking,
  toolCalls,         \* Map<string, ToolCallState>, in insertion order
  status,            \* the transport's status ref
  abortController,   \* 0 (null) or the connection whose controller it holds
  conns,             \* position of every connectPost call made so far
  nReads,            \* chunks read so far
  seen,              \* history: tool-call ids of the open stream, first seen first
  tokenSum,          \* history: usage of the complete events received by the conversation
  last,              \* history: the operation that made the last step
  wire,              \* the bytes of a response body, as the server sends them
  offset,            \* how many bytes of wire reader.read() has delivered
  buffer,            \* connectPost: the incomplete line kept between reads
  currentEventType,  \* connectPost: the event: line of the event being framed
  currentEventData,  \* connectPost: the data: line of the event being framed
  dispatched,        \* history: the handler calls made for wire, with their payloads
  ended,             \* connectPost has returned from the read loop
  debugEvents,       \* ref<DebugEvent[]>
  eventIdCounter,
  recorded,          \* history: the ids recorded since the last clear
  origin             \* history: where the generation started last was started

engine == <<conversation, isStreaming, currentResponse, currentThinking, toolCalls>>
transport == <<status, abortController, conns>>
reading == <<wire, offset, buffer, currentEventType, currentEventData, dispatched, ended>>
debugging == <<debugEvents, eventIdCounter, recorded>>
vars == <<conversation, isStreaming, currentResponse, currentThinking, toolCalls,
          status, abortController, conns, nReads, seen, tokenSum, last,
          wire, offset, buffer, currentEventType, currentEventData, dispatched, ended,
          debugEvents, eventIdCounter, recorded, origin>>

\* ------------------------------------------------------------- data model
NullConversation ==
  [isNull |-> TRUE, messages |-> <<>>, total_tokens |-> 0, message_count |-> 0]

Message(role, content, st, tcid, result, is_error, usage, thinking) ==
  [role |-> role, content |-> content, status |-> st, tool_call_id |-> tcid,
   tool_result |-> result, is_error |-> is_error, usage |-> usage,
   thinking |-> thinking]

\* slice(0, n + 1): the message at the index kept
Slice_Through(s, n) == SubSeq(s, 1, IF n + 1 < Len(s) THEN n + 1 ELSE Len(s))

\* Array.prototype.slice(0, n)
Slice(s, n) == SubSeq(s, 1, IF n < Len(s) THEN n ELSE Len(s))

\* Map.prototype.has / get / set on a map kept as a sequence of entries
MapHas(m, id) == \E i \in 1..Len(m) : m[i].id = id
MapIndex(m, id) == CHOOSE i \in 1..Len(m) : m[i].id = id
MapSet(m, id, entry) ==
  IF MapHas(m, id) THEN [m EXCEPT ![MapIndex(m, id)] = entry] ELSE Append(m, entry)

\* ------------------------------------------------ the engine's stream handlers
\* The handlers close over the module-level refs, so each is a function of
\* the engine state es and the decoded event.
EngineState ==
  [conversation |-> conversation, isStreaming |-> isStreaming,
   currentResponse |-> currentResponse, currentThinking |-> currentThinking,
   toolCalls |-> toolCalls, seen |-> seen, tokenSum |-> tokenSum, calls |-> <<>>,
   debugEvents |-> debugEvents, eventIdCounter |-> eventIdCounter, trace |-> <<>>,
   skipped |-> <<>>]

\* the delta appended to the running text
onToken_AppendsDelta(es, ev) == [es EXCEPT !.currentResponse = @ \o ev.delta]

\* currentResponse.value = event.cumulative
onToken(es, ev) == [es EXCEPT !.currentResponse = ev.text]

onThinking(es, ev) == [es EXCEPT !.currentThinking = ev.text]

onToolCall(es, ev) ==
  [es EXCEPT !.toolCalls =
     MapSet(@, ev.id, [id |-> ev.id, status |-> ev.status,
                       result |-> Undefined, is_error |-> Undefined])]

\* a result for an unknown id kept as a new pending entry
onToolResult_CreatesEntry(es, ev) ==
  [es EXCEPT !.toolCalls =
     MapSet(@, ev.id, [id |-> ev.id, status |-> "complete", result |-> ev.text,
                       is_error |-> ev.is_error])]

onToolResult(es, ev) ==
  IF MapHas(es.toolCalls, ev.id)
    THEN [es EXCEPT !.toolCalls[MapIndex(es.toolCalls, ev.id)] =
            [@ EXCEPT !.status = "complete", !.result = ev.text,
                      !.is_error = ev.is_error]]
    ELSE es

\* toolCalls.forEach: a tool_call message and a tool_result message per entry
ToolMessages(tcs) ==
  [i \in 1..(2 * Len(tcs)) |->
     IF i % 2 = 1
       THEN Message("tool_call", "", "complete", tcs[(i + 1) \div 2].id,
                    Undefined, Undefined, NoUsage, Undefined)
       ELSE Message("tool_result", "", "complete", tcs[i \div 2].id,
                    tcs[i \div 2].result, tcs[i \div 2].is_error, NoUsage, Undefined)]

AssistantMessage(es, ev) ==
  Message("assistant", ev.text, "complete", Undefined, Undefined, Undefined, ev.usage,
          IF es.currentThinking = "" THEN Undefined ELSE es.currentThinking)

ErrorMessage(text) ==
  Message("assistant", text, "error", Undefined, Undefined, Undefined, NoUsage, Undefined)

UsageTokens(u) == IF u.present THEN u.prompt_tokens + u.completion_tokens ELSE 0

\* completion_tokens left out of the token count
onComplete_PromptTokensOnly(es, ev) ==
  LET conv == es.conversation
      msgs == conv.messages \o ToolMessages(es.toolCalls) \o <<AssistantMessage(es, ev)>>
      after == IF conv.isNull THEN conv
               ELSE [conv EXCEPT !.messages = msgs,
                                 !.total_tokens = @ + ev.usage.prompt_tokens,
                                 !.message_count = Len(msgs)]
  IN [es EXCEPT !.conversation = after, !.isStreaming = FALSE,
                !.currentResponse = "", !.currentThinking = "", !.toolCalls = <<>>]

\* the assistant message pushed before the tool messages
onComplete_AssistantFirst(es, ev) ==
  LET conv == es.conversation
      msgs == conv.messages \o <<AssistantMessage(es, ev)>> \o ToolMessages(es.toolCalls)
      after == IF conv.isNull THEN conv
               ELSE [conv EXCEPT !.messages = msgs,
                                 !.total_tokens = @ + UsageTokens(ev.usage),
                                 !.message_count = Len(msgs)]
  IN [es EXCEPT !.conversation = after, !.isStreaming = FALSE,
                !.currentResponse = "", !.currentThinking = "", !.toolCalls = <<>>]

onComplete(es, ev) ==
  LET conv == es.conversation
      msgs == conv.messages \o ToolMessages(es.toolCalls) \o <<AssistantMessage(es, ev)>>
      after == IF conv.isNull THEN conv
               ELSE [conv EXCEPT !.messages = msgs,
                                 !.total_tokens = @ + UsageTokens(ev.usage),
                                 !.message_count = Len(msgs)]
  IN [es EXCEPT !.conversation = after, !.isStreaming = FALSE,
                !.currentResponse = "", !.currentThinking = "", !.toolCalls = <<>>]

\* the pending tool calls left in place by an error
onError_KeepsToolCalls(es, text) ==
  LET conv == es.conversation
      after == IF conv.isNull THEN conv
               ELSE [conv EXCEPT !.messages = Append(@, ErrorMessage(text))]
  IN [es EXCEPT !.conversation = after, !.isStreaming = FALSE,
                !.currentResponse = "", !.currentThinking = ""]

\* the pending tool calls materialized on an error as on a complete
onError_MaterializesTools(es, text) ==
  LET conv == es.conversation
      after == IF conv.isNull THEN conv
               ELSE [conv EXCEPT !.messages =
                       Append(@ \o ToolMessages(es.toolCalls), ErrorMessage(text))]
  IN [es EXCEPT !.conversation = after, !.isStreaming = FALSE,
                !.currentResponse = "", !.currentThinking = "", !.toolCalls = <<>>]

onError(es, text) ==
  LET conv == es.conversation
      after == IF conv.isNull THEN conv
               ELSE [conv EXCEPT !.messages = Append(@, ErrorMessage(text))]
  IN [es EXCEPT !.conversation = after, !.isStreaming = FALSE,
                !.currentResponse = "", !.currentThinking = "", !.toolCalls = <<>>]

\* ------------------------------------------------------------ the transport
\* addDebugEvent keeps the last KeepLast entries and appends the new one
KeepLast == 99

\* slice(-(n + 1)): one entry more kept
SliceLast_OneMore(s, n) == IF Len(s) <= n + 1 THEN s ELSE SubSeq(s, Len(s) - n, Len(s))

\* Array.prototype.slice(-n)
SliceLast(s, n) == IF Len(s) <= n THEN s ELSE SubSeq(s, Len(s) - n + 1, Len(s))

\* [...debugEvents.value.slice(-99), event]
PushDebugEvent(events, id, type) ==
  Append(SliceLast(events, KeepLast), [id |-> id, type |-> type])

\* What the stream has delivered, recorded before the handler runs: the
\* handler invoked, the tool-call ids in first-seen order, the usage of a
\* complete event that reaches a conversation.
Called(es, name) ==
  [es EXCEPT !.calls = Append(@, name), !.trace = Append(@, name)]

\* no debug entry for a ping event
Logged_NotPing(es, ev) ==
  IF ev.type = "ping" THEN es
  ELSE [es EXCEPT !.debugEvents = PushDebugEvent(@, es.eventIdCounter, ev.type),
                  !.eventIdCounter = @ + 1,
                  !.trace = Append(@, "addDebugEvent")]

\* addDebugEvent(type, data, raw) on a decoded event
Logged(es, ev) ==
  [es EXCEPT !.debugEvents = PushDebugEvent(@, es.eventIdCounter, ev.type),
             !.eventIdCounter = @ + 1,
             !.trace = Append(@, "addDebugEvent")]

Record(es, ev) ==
  LET e1 == IF ev.type = "tool_call" /\ ~(\E i \in 1..Len(es.seen) : es.seen[i] = ev.id)
              THEN [es EXCEPT !.seen = Append(@, ev.id)] ELSE es
  IN IF ev.type = "complete" /\ ~es.conversation.isNull /\ ev.usage.present
       THEN [e1 EXCEPT !.tokenSum = @ + ev.usage.prompt_tokens + ev.usage.completion_tokens]
       ELSE e1

\* an event of an unknown type taken for one that ends the stream
Ignored_Ends(es, ev) ==
  [es |-> [es EXCEPT !.skipped = Append(@, ev.type)], end |-> TRUE]

\* the switch of handleSSEEvent has no default case: nothing runs and false
\* is returned
Ignored(es, ev) ==
  [es |-> [es EXCEPT !.skipped = Append(@, ev.type)], end |-> FALSE]

\* handleSSEEvent: the engine state after the event, and whether the stream ends
handleSSEEvent(es, ev) ==
  CASE ev.type = "token" ->
         [es |-> IF ev.ok THEN onToken(Called(Logged(es, ev), "onToken"), ev) ELSE es, end |-> FALSE]
    [] ev.type = "thinking" ->
         [es |-> IF ev.ok THEN onThinking(Called(Logged(es, ev), "onThinking"), ev) ELSE es, end |-> FALSE]
    [] ev.type = "tool_call" ->
         [es |-> IF ev.ok THEN onToolCall(Called(Logged(Record(es, ev), ev), "onToolCall"), ev) ELSE es,
          end |-> FALSE]
    [] ev.type = "tool_result" ->
         [es |-> IF ev.ok THEN onToolResult(Called(Logged(es, ev), "onToolResult"), ev) ELSE es,
          end |-> FALSE]
    [] ev.type = "complete" ->
         [es |-> IF ev.ok THEN onComplete(Called(Logged(Record(es, ev), ev), "onComplete"), ev) ELSE es,
          end |-> TRUE]
    [] ev.type = "error" ->
         [es |-> IF ev.ok THEN onError(Called(Logged(es, ev), "onError"), ev.text) ELSE es, end |-> TRUE]
    [] ev.type = "ping" ->
         [es |-> IF ev.ok THEN Called(Logged(es, ev), "onPing") ELSE es, end |-> FALSE]
    [] OTHER -> Ignored(es, ev)

\* the line loop going on after an event that ends the stream
RECURSIVE ProcessChunk_NoReturn(_, _)
ProcessChunk_NoReturn(es, chunk) ==
  IF chunk = <<>> THEN [es |-> es, end |-> FALSE]
  ELSE LET r == handleSSEEvent(es, Head(chunk))
           rest == ProcessChunk_NoReturn(r.es, Tail(chunk))
       IN [es |-> rest.es, end |-> r.end \/ rest.end]

\* The line loop of connectPost over the events framed by one chunk: it
\* returns at the first event that ends the stream.
RECURSIVE ProcessChunk(_, _)
ProcessChunk(es, chunk) ==
  IF chunk = <<>> THEN [es |-> es, end |-> FALSE]
  ELSE LET r == handleSSEEvent(es, Head(chunk))
       IN IF r.end THEN r ELSE ProcessChunk(r.es, Tail(chunk))

\* disconnect(): abort the controller held, if any, and drop it.  A
\* connection suspended in an await is left with an AbortError to deliver.
Aborted(cs, ac) ==
  IF ac # 0 /\ cs[ac] \in {"fetch", "read"} THEN [cs EXCEPT ![ac] = "aborted"] ELSE cs

\* -------------------------------------------------------------- operations
\* ------------------------------------------------------------- the request
\* keys.getHeaders(): the credential headers of the key store, none when no
\* key is stored
ByokHeaderSets ==
  {{}, {<<"X-LLM-Key", "sk-1">>, <<"X-LLM-Provider", "openrouter">>}}

IsTurn(m) == m.role = "user" \/ m.role = "assistant"

\* the history without the slice(0, -1): the message just pushed sent along
messageHistory_KeepsLast(msgs) ==
  LET turns == SelectSeq(msgs, IsTurn)
  IN [i \in 1..Len(turns) |-> [role |-> turns[i].role, content |-> turns[i].content]]

\* messages.filter(user or assistant).slice(0, -1).map(role, content), on the
\* list that already holds the new user message
messageHistory(msgs) ==
  LET turns == SelectSeq(msgs, IsTurn)
      kept == SubSeq(turns, 1, Len(turns) - 1)
  IN [i \in 1..Len(kept) |-> [role |-> kept[i].role, content |-> kept[i].content]]

requestBody(msgs, content) ==
  [user_message |-> content, messages |-> messageHistory(msgs)]

NoFetch ==
  [issued |-> FALSE, headers |-> {},
   body |-> [user_message |-> "", messages |-> <<>>]]

\* the fetch of connectPost(url, body, handlers): its headers are the two of
\* the literal; a fourth argument is no parameter of connectPost
Fetch(body, options) ==
  [issued |-> TRUE,
   headers |-> {<<"Content-Type", "application/json">>, <<"Accept", "text/event-stream">>},
   body |-> body]

\* error: the name of the error the call threw, "" when it returned;
\* supplied: the headers keys.getHeaders() returned to the call;
\* fetch: the request the call issued;
\* trace: the calls handleSSEEvent made in the step, addDebugEvent included;
\* skipped: the event types of the step the switch of handleSSEEvent had no
\* case for
Last(op, accepted, calls) ==
  [op |-> op, accepted |-> accepted, calls |-> calls, error |-> "",
   supplied |-> {}, fetch |-> NoFetch, trace |-> <<>>, skipped |-> <<>>]

\* no response body is being read byte by byte
IdleReader ==
  /\ wire = <<>>
  /\ offset = 0
  /\ buffer = <<>>
  /\ currentEventType = <<>>
  /\ currentEventData = <<>>
  /\ dispatched = <<>>
  /\ ended = FALSE

EmptyDebugEvents ==
  /\ debugEvents = <<>>
  /\ eventIdCounter = 0
  /\ recorded = <<>>

\* the refs of both composables as they are constructed
\* same: conversation.value is still the conversation object the generation's
\* sendMessage pushed its user message to; at: the position (from 1) of that
\* user message in the list
NoGeneration == [same |-> FALSE, at |-> 0]

\* the generation is over once isStreaming is false
OriginAfter(streaming) == IF streaming THEN origin ELSE NoGeneration

IdleEngine ==
  /\ conversation = NullConversation
  /\ isStreaming = FALSE
  /\ currentResponse = ""
  /\ currentThinking = ""
  /\ toolCalls = <<>>
  /\ status = "disconnected"
  /\ abortController = 0
  /\ conns = <<>>
  /\ nReads = 0
  /\ seen = <<>>
  /\ tokenSum = 0
  /\ last = Last("init", FALSE, <<>>)
  /\ origin = NoGeneration

Init ==
  /\ IdleEngine
  /\ IdleReader
  /\ EmptyDebugEvents

\* The engine refs after a handler run
SetEngine(es) ==
  /\ conversation' = es.conversation
  /\ isStreaming' = es.isStreaming
  /\ currentResponse' = es.currentResponse
  /\ currentThinking' = es.currentThinking
  /\ toolCalls' = es.toolCalls
  /\ seen' = es.seen
  /\ tokenSum' = es.tokenSum

createConversation ==
  /\ conversation' = [isNull |-> FALSE, messages |-> <<>>, total_tokens |-> 0,
                      message_count |-> 0]
  /\ tokenSum' = 0
  /\ origin' = [origin EXCEPT !.same = FALSE]
  /\ last' = Last("createConversation", TRUE, <<>>)
  /\ UNCHANGED <<reading, debugging>>
  /\ UNCHANGED <<isStreaming, currentResponse, currentThinking, toolCalls,
                 status, abortController, conns, nReads, seen>>

deleteConversation ==
  /\ conversation' = NullConversation
  /\ origin' = [origin EXCEPT !.same = FALSE]
  /\ last' = Last("deleteConversation", TRUE, <<>>)
  /\ UNCHANGED <<reading, debugging>>
  /\ UNCHANGED <<isStreaming, currentResponse, currentThinking, toolCalls,
                 status, abortController, conns, nReads, seen, tokenSum>>

\* disconnect(): abort and drop the controller, status = 'disconnected'
disconnect ==
  /\ conns' = Aborted(conns, abortController)
  /\ abortController' = 0
  /\ status' = "disconnected"

\* connectPost up to its first await: disconnect(), then a new controller
\* and the fetch in flight
connectPost ==
  /\ conns' = Append(Aborted(conns, abortController), "fetch")
  /\ abortController' = Len(conns) + 1
  /\ status' = "connecting"

UserMessage(content) ==
  Message("user", content, "complete", Undefined, Undefined, Undefined, NoUsage, Undefined)

\* the early return without the isStreaming test
Rejects_NoStreamingTest(conv, streaming) == conv.isNull

\* the early return of sendMessage and retryFromMessage
Rejects(conv, streaming) == conv.isNull \/ streaming

\* sendMessage past its early return, on the conversation conv
StartGeneration(conv, content) ==
  /\ Len(conns) < MaxConn
  /\ conversation' = [conv EXCEPT !.messages = Append(@, UserMessage(content)),
                                  !.message_count = Len(conv.messages) + 1]
  /\ isStreaming' = TRUE
  /\ currentResponse' = ""
  /\ currentThinking' = ""
  /\ toolCalls' = <<>>
  /\ seen' = <<>>
  /\ origin' = [same |-> TRUE, at |-> Len(conv.messages) + 1]
  /\ connectPost
  /\ UNCHANGED <<nReads, tokenSum>>

sendMessage(content) ==
  IF Rejects(conversation, isStreaming)
    THEN /\ last' = Last("sendMessage", FALSE, <<>>)
         /\ UNCHANGED <<engine, transport, nReads, seen, tokenSum, reading, debugging, origin>>
    ELSE \E byokHeaders \in ByokHeaderSets :
           /\ StartGeneration(conversation, content)
           /\ last' = [Last("sendMessage", TRUE, <<>>) EXCEPT
                         !.supplied = byokHeaders,
                         !.fetch = Fetch(requestBody(conversation'.messages, content),
                                         [headers |-> byokHeaders])]
           /\ UNCHANGED <<reading, debugging>>

cancelGeneration ==
  IF ~isStreaming
    THEN /\ last' = Last("cancelGeneration", FALSE, <<>>)
         /\ UNCHANGED <<engine, transport, nReads, seen, tokenSum, reading, debugging, origin>>
    ELSE /\ disconnect
         /\ isStreaming' = FALSE
         /\ currentResponse' = ""
         /\ currentThinking' = ""
         /\ toolCalls' = <<>>
         /\ last' = Last("cancelGeneration", TRUE, <<>>)
         /\ origin' = OriginAfter(isStreaming')
         /\ UNCHANGED <<reading, debugging>>
         /\ UNCHANGED <<conversation, nReads, seen, tokenSum>>

\* the while loop of retryFromMessage: the nearest user message at or before
\* index (0-based), or -1
UserMessageIndex(msgs, index) ==
  LET at == {k \in 0..index : msgs[k + 1].role = "user"}
  IN IF at = {} THEN -1 ELSE CHOOSE k \in at : \A j \in at : j <= k

\* index runs from -1 to the length of the list; messages[length] is
\* undefined and reading its role throws, which rejects the call's promise
retryFromMessage(index) ==
  LET msgs == conversation.messages
      u == UserMessageIndex(msgs, index)
  IN IF Rejects(conversation, isStreaming) \/ index >= Len(msgs) \/ u < 0
       THEN /\ last' = [Last("retryFromMessage", FALSE, <<>>) EXCEPT !.error =
                          IF ~Rejects(conversation, isStreaming) /\ index >= Len(msgs)
                            THEN "TypeError" ELSE ""]
            /\ UNCHANGED <<engine, transport, nReads, seen, tokenSum, reading, debugging, origin>>
       ELSE /\ StartGeneration([conversation EXCEPT !.messages = Slice(msgs, u),
                                                    !.message_count = Len(Slice(msgs, u))],
                               msgs[u + 1].content)
            /\ \E byokHeaders \in ByokHeaderSets :
                 last' = [Last("retryFromMessage", TRUE, <<>>) EXCEPT
                            !.supplied = byokHeaders,
                            !.fetch = Fetch(requestBody(conversation'.messages,
                                                        msgs[u + 1].content),
                                            [headers |-> byokHeaders])]
            /\ UNCHANGED <<reading, debugging>>

deleteMessagesFrom(index) ==
  IF conversation.isNull
    THEN /\ last' = Last("deleteMessagesFrom", FALSE, <<>>)
         /\ UNCHANGED <<engine, transport, nReads, seen, tokenSum, reading, debugging, origin>>
    ELSE /\ conversation' = [conversation EXCEPT
                               !.messages = Slice(@, index),
                               !.message_count = Len(Slice(conversation.messages, index))]
         /\ last' = Last("deleteMessagesFrom", TRUE, <<>>)
         /\ UNCHANGED <<reading, debugging, origin>>
         /\ UNCHANGED <<isStreaming, currentResponse, currentThinking, toolCalls,
                        transport, nReads, seen, tokenSum>>

\* ------------------------------------------- the steps of a connectPost call
\* fetch resolves with an ok response that has a body
FetchResolves(c) ==
  /\ conns[c] = "fetch"
  /\ status' = "connected"
  /\ conns' = [conns EXCEPT ![c] = "read"]
  /\ last' = Last("fetchResolves", TRUE, <<>>)
  /\ UNCHANGED <<reading, debugging, origin>>
  /\ UNCHANGED <<engine, abortController, nReads, seen, tokenSum>>

\* the catch block on an error that is no AbortError
CatchError(c, why) ==
  LET es == onError(Called(EngineState, "onError"), why)
  IN /\ status' = "error"
     /\ SetEngine(es)
     /\ conns' = [conns EXCEPT ![c] = "done"]
     /\ UNCHANGED <<abortController, nReads>>

\* fetch rejects, or resolves with a non-ok status or without a body
FetchFails(c, why) ==
  /\ conns[c] = "fetch"
  /\ CatchError(c, why)
  /\ last' = Last("fetchFails", TRUE, <<"onError">>)
  /\ origin' = OriginAfter(isStreaming')
  /\ UNCHANGED <<reading, debugging>>

\* reader.read() rejects while the stream is open
ReadFails(c) ==
  /\ conns[c] = "read"
  /\ CatchError(c, NetworkError)
  /\ last' = Last("readFails", TRUE, <<"onError">>)
  /\ origin' = OriginAfter(isStreaming')
  /\ UNCHANGED <<reading, debugging>>

\* reader.read() delivers a chunk and the line loop runs over it
ReadChunk(c, chunk) ==
  LET r == ProcessChunk(EngineState, chunk)
  IN /\ conns[c] = "read"
     /\ nReads < MaxReads
     /\ nReads' = nReads + 1
     /\ SetEngine(r.es)
     /\ IF r.end
          THEN /\ conns' = [Aborted(conns, abortController) EXCEPT ![c] = "done"]
               /\ abortController' = 0
               /\ status' = "disconnected"
          ELSE UNCHANGED transport
     /\ last' = [Last("readChunk", r.end, r.es.calls) EXCEPT
                   !.trace = r.es.trace, !.skipped = r.es.skipped]
     /\ origin' = OriginAfter(r.es.isStreaming)
     /\ UNCHANGED <<reading, debugging>>

\* reader.read() reports done: the server closed the stream
StreamEnds(c) ==
  /\ conns[c] = "read"
  /\ conns' = [Aborted(conns, abortController) EXCEPT ![c] = "done"]
  /\ abortController' = 0
  /\ status' = "disconnected"
  /\ last' = Last("streamEnds", TRUE, <<>>)
  /\ UNCHANGED <<reading, debugging, origin>>
  /\ UNCHANGED <<engine, nReads, seen, tokenSum>>

\* the catch block without the AbortError test
AbortUnwinds_AsError(c) ==
  /\ conns[c] = "aborted"
  /\ CatchError(c, "The operation was aborted")
  /\ last' = Last("abortUnwinds", TRUE, <<"onError">>)
  /\ UNCHANGED <<reading, debugging, origin>>

\* the pending await of an aborted connection rejects with an AbortError
AbortUnwinds(c) ==
  /\ conns[c] = "aborted"
  /\ status' = "disconnected"
  /\ conns' = [conns EXCEPT ![c] = "done"]
  /\ last' = Last("abortUnwinds", TRUE, <<>>)
  /\ UNCHANGED <<reading, debugging, origin>>
  /\ UNCHANGED <<engine, abortController, nReads, seen, tokenSum>>

Next ==
  \/ createConversation
  \/ deleteConversation
  \/ \E content \in Contents : sendMessage(content)
  \/ cancelGeneration
  \/ \E index \in -1..Len(conversation.messages) : retryFromMessage(index)
  \/ \E index \in 0..Len(conversation.messages) : deleteMessagesFrom(index)
  \/ \E c \in 1..Len(conns) : FetchResolves(c)
  \/ \E c \in 1..Len(conns), why \in {HttpError, NullBody, NetworkError} : FetchFails(c, why)
  \/ \E c \in 1..Len(conns) : ReadFails(c)
  \/ \E c \in 1..Len(conns), chunk \in Chunks : ReadChunk(c, chunk)
  \/ \E c \in 1..Len(conns) : StreamEnds(c)
  \/ \E c \in 1..Len(conns) : AbortUnwinds(c)

Spec == Init /\ [][Next]_vars

\* ---------------------------------------------- the read loop, byte by byte
\* The engine above reads a body as framed events.  Here the same loop runs
\* over the characters of the body, cut into chunks at any offset.
mainVars == <<engine, transport, nReads, seen, tokenSum, last, origin>>

\* events framed in one response body
MaxEvents == 2

EventField == <<"e", "v", "e", "n", "t", ":">>
DataField == <<"d", "a", "t", "a", ":">>
WireTypes == {<<"t", "o", "k", "e", "n">>, <<"c", "o", "m", "p", "l", "e", "t", "e">>}
Payloads == {<<"{", "}">>, <<"1">>}
LineEnds == {<<"\n">>, <<"\r", "\n">>}

\* one event as the server writes it: event: line, data: line, blank line
Frame(type, data, eol) ==
  EventField \o <<" ">> \o type \o eol \o DataField \o <<" ">> \o data \o eol \o eol

RECURSIVE Streams(_, _)
Streams(n, eol) ==
  IF n = 0 THEN {<<>>}
  ELSE {Frame(t, d, eol) \o rest : t \in WireTypes, d \in Payloads, rest \in Streams(n - 1, eol)}

Wires == UNION {Streams(n, eol) : n \in 1..MaxEvents, eol \in LineEnds}

\* the event type a line names, as handleSSEEvent's switch sees it
TypeName(chars) ==
  CASE chars = <<"t", "o", "k", "e", "n">> -> "token"
    [] chars = <<"c", "o", "m", "p", "l", "e", "t", "e">> -> "complete"
    [] OTHER -> "unknown"

\* parseEventData: JSON.parse accepts the payloads the server writes
parseEventData(raw) == raw \in Payloads

StartsWith(line, prefix) ==
  Len(line) >= Len(prefix) /\ SubSeq(line, 1, Len(prefix)) = prefix

WhiteSpace == {" ", "\t", "\r", "\n"}

\* String.prototype.trim
RECURSIVE Trim(_)
Trim(s) ==
  IF s = <<>> THEN s
  ELSE IF Head(s) \in WhiteSpace THEN Trim(Tail(s))
  ELSE IF s[Len(s)] \in WhiteSpace THEN Trim(SubSeq(s, 1, Len(s) - 1))
  ELSE s

\* buffer.split(/\r?\n/): cur is the line being collected
RECURSIVE SplitLines(_, _)
SplitLines(cur, s) ==
  IF s = <<>> THEN <<cur>>
  ELSE IF Head(s) = "\n"
    THEN <<IF cur # <<>> /\ cur[Len(cur)] = "\r" THEN SubSeq(cur, 1, Len(cur) - 1) ELSE cur>>
           \o SplitLines(<<>>, Tail(s))
  ELSE SplitLines(Append(cur, Head(s)), Tail(s))

ReaderState ==
  [buffer |-> buffer, currentEventType |-> currentEventType,
   currentEventData |-> currentEventData, dispatched |-> dispatched, ended |-> ended]

\* the locals of connectPost before the first read
NewReader ==
  [buffer |-> <<>>, currentEventType |-> <<>>, currentEventData |-> <<>>,
   dispatched |-> <<>>, ended |-> FALSE]

\* one line of the for loop: on a blank line with an event framed,
\* handleSSEEvent dispatches it, and the loop returns if it ends the stream
ProcessLine(rs, line) ==
  IF StartsWith(line, EventField)
    THEN [rs EXCEPT !.currentEventType = Trim(SubSeq(line, 7, Len(line)))]
  ELSE IF StartsWith(line, DataField)
    THEN [rs EXCEPT !.currentEventData = Trim(SubSeq(line, 6, Len(line)))]
  ELSE IF line = <<>> /\ rs.currentEventType # <<>> /\ rs.currentEventData # <<>>
    THEN LET r == handleSSEEvent(EngineState,
                    Ev(TypeName(rs.currentEventType), parseEventData(rs.currentEventData),
                       Undefined, rs.currentEventData, Undefined, Undefined, NoUsage))
         IN [rs EXCEPT !.dispatched =
                          @ \o [i \in 1..Len(r.es.calls) |->
                                  [handler |-> r.es.calls[i], data |-> rs.currentEventData]],
                       !.currentEventType = <<>>,
                       !.currentEventData = <<>>,
                       !.ended = r.end]
  ELSE rs

RECURSIVE LineLoop(_, _)
LineLoop(rs, lines) ==
  IF lines = <<>> \/ rs.ended THEN rs
  ELSE LineLoop(ProcessLine(rs, Head(lines)), Tail(lines))

\* the chunk split on its own, the line kept from the last read forgotten
ReadLoopBody_DropsPartialLine(rs, chunk) ==
  LET lines == SplitLines(<<>>, chunk)
  IN LineLoop([rs EXCEPT !.buffer = lines[Len(lines)]], SubSeq(lines, 1, Len(lines) - 1))

\* the body of the while loop for one chunk: append it to the buffer, split,
\* keep the last (incomplete) line, run the line loop over the others
ReadLoopBody(rs, chunk) ==
  LET lines == SplitLines(<<>>, rs.buffer \o chunk)
  IN LineLoop([rs EXCEPT !.buffer = lines[Len(lines)]], SubSeq(lines, 1, Len(lines) - 1))

SetReader(rs) ==
  /\ buffer' = rs.buffer
  /\ currentEventType' = rs.currentEventType
  /\ currentEventData' = rs.currentEventData
  /\ dispatched' = rs.dispatched
  /\ ended' = rs.ended

\* a response body arrives: any of the streams, nothing read yet
InitReader ==
  /\ IdleEngine
  /\ EmptyDebugEvents
  /\ wire \in Wires
  /\ offset = 0
  /\ buffer = <<>>
  /\ currentEventType = <<>>
  /\ currentEventData = <<>>
  /\ dispatched = <<>>
  /\ ended = FALSE

\* reader.read() delivers the next n characters of the body
ReadBytes(n) ==
  /\ ~ended
  /\ offset + n <= Len(wire)
  /\ offset' = offset + n
  /\ SetReader(ReadLoopBody(ReaderState, SubSeq(wire, offset + 1, offset + n)))
  /\ UNCHANGED <<wire, mainVars, debugging>>

\* reader.read() reports done after the last character
ReaderDone ==
  /\ ~ended
  /\ offset = Len(wire)
  /\ ended' = TRUE
  /\ UNCHANGED <<wire, offset, buffer, currentEventType, currentEventData, dispatched,
                 mainVars, debugging>>

NextReader ==
  \/ \E n \in 1..(Len(wire) - offset) : ReadBytes(n)
  \/ ReaderDone

SpecReader == InitReader /\ [][NextReader]_vars

\* ------------------------------------------------------ the debug event buffer
\* events recorded in one behaviour
MaxRecorded == 103

DebugTypes == {"token"}

addDebugEvent(type) ==
  /\ eventIdCounter < MaxRecorded
  /\ debugEvents' = PushDebugEvent(debugEvents, eventIdCounter, type)
  /\ eventIdCounter' = eventIdCounter + 1
  /\ recorded' = Append(recorded, eventIdCounter)
  /\ UNCHANGED <<mainVars, reading>>

clearDebugEvents ==
  /\ debugEvents' = <<>>
  /\ recorded' = <<>>
  /\ UNCHANGED <<eventIdCounter, mainVars, reading>>

NextDebug ==
  \/ \E type \in DebugTypes : addDebugEvent(type)
  \/ clearDebugEvents

SpecDebug == Init /\ [][NextDebug]_vars

\* ------------------------------------------- events dispatched and recorded
\* events handed to handleSSEEvent on one connection
MaxDispatched == 3

\* One call handleSSEEvent(eventType, eventData, handlers) of the read loop,
\* the debug buffer included; an event that ends the stream is the last one.
DispatchEvent(ev) ==
  LET r == handleSSEEvent(EngineState, ev)
  IN /\ ~ended
     /\ nReads < MaxDispatched
     /\ nReads' = nReads + 1
     /\ SetEngine(r.es)
     /\ debugEvents' = r.es.debugEvents
     /\ eventIdCounter' = r.es.eventIdCounter
     /\ recorded' = recorded \o [i \in 1..(r.es.eventIdCounter - eventIdCounter) |->
                                  eventIdCounter + i - 1]
     /\ dispatched' = [i \in 1..Len(r.es.trace) |-> [handler |-> r.es.trace[i], data |-> ev.type]]
     /\ ended' = r.end
     /\ last' = [Last("handleSSEEvent", r.end, r.es.calls) EXCEPT !.trace = r.es.trace, !.skipped = r.es.skipped]
     /\ UNCHANGED <<transport, wire, offset, buffer, currentEventType, currentEventData,
                    origin>>

NextDispatch ==
  \E ev \in Events : DispatchEvent(ev)

SpecDispatch == Init /\ [][NextDispatch]_vars

\* ------------------------------------------------------------------ claims
Messages == conversation.messages

\* the connections with a request or a body read in flight
ActiveConns == {c \in 1..Len(conns) : conns[c] \in {"fetch", "read"}}

\* the chunks that open with a decodable event of the type
ChunksOf(type) == {chunk \in Chunks : Head(chunk).type = type /\ Head(chunk).ok}
CompleteChunks == ChunksOf("complete")
ErrorChunks == ChunksOf("error")
ToolResultChunks == ChunksOf("tool_result")

\* the step is a chunk read that invoked exactly this handler
Handled(handler) == last'.op = "readChunk" /\ last'.calls = <<handler>>

\* C1: a sendMessage call made while a generation is in progress, or with no
\* conversation, changes nothing (no user message, same accumulators, no
\* connection opened), and at most one connection is ever active.
C1_SingleGeneration ==
  /\ [](Cardinality(ActiveConns) <= 1)
  /\ [][(last'.op = "sendMessage" /\ (isStreaming \/ conversation.isNull))
          => UNCHANGED <<engine, transport>>]_vars

C1_Witness ==
  /\ last.op = "sendMessage"
  /\ ~last.accepted
  /\ isStreaming
  /\ Cardinality(ActiveConns) = 1
  /\ Len(Messages) = 1

\* C2: the handling of a complete event appends, at the end of the message
\* list, a tool_call message directly followed by its tool_result message
\* for every tool call of the stream, in the order the calls were first
\* seen, and then one assistant message with the event's response text.
C2_CompleteOrder ==
  [][(Handled("onComplete") /\ ~conversation.isNull) =>
     \A c \in 1..Len(conns), chunk \in CompleteChunks :
       ReadChunk(c, chunk)
         => LET n == Len(Messages)
                k == Len(seen)
                after == conversation'.messages
            IN /\ Len(after) = n + 2 * k + 1
               /\ SubSeq(after, 1, n) = Messages
               /\ \A i \in 1..k :
                    /\ after[n + 2 * i - 1].role = "tool_call"
                    /\ after[n + 2 * i - 1].tool_call_id = seen[i]
                    /\ after[n + 2 * i].role = "tool_result"
                    /\ after[n + 2 * i].tool_call_id = seen[i]
               /\ after[n + 2 * k + 1].role = "assistant"
               /\ after[n + 2 * k + 1].status = "complete"
               /\ after[n + 2 * k + 1].content = Head(chunk).text]_vars

C2_Witness ==
  /\ last.op = "readChunk"
  /\ last.calls = <<"onComplete">>
  /\ Len(Messages) = 6
  /\ Messages[1].role = "user"
  /\ Messages[2].role = "tool_call" /\ Messages[2].tool_call_id = "t2"
  /\ Messages[3].role = "tool_result" /\ Messages[3].tool_call_id = "t2"
  /\ Messages[4].role = "tool_call" /\ Messages[4].tool_call_id = "t1"
  /\ Messages[5].role = "tool_result" /\ Messages[5].tool_call_id = "t1"
  /\ Messages[6].role = "assistant" /\ Messages[6].content = "Done"

\* C3: the handling of an error event appends exactly one assistant message
\* with status error and the event's message as content, no tool message
\* whatever tool calls are pending, and clears the stream session.
C3_ErrorEvent ==
  [][(Handled("onError") /\ ~conversation.isNull) =>
     \A c \in 1..Len(conns), chunk \in ErrorChunks :
       ReadChunk(c, chunk)
         => /\ Len(conversation'.messages) = Len(Messages) + 1
            /\ SubSeq(conversation'.messages, 1, Len(Messages)) = Messages
            /\ conversation'.messages[Len(Messages) + 1].role = "assistant"
            /\ conversation'.messages[Len(Messages) + 1].status = "error"
            /\ conversation'.messages[Len(Messages) + 1].content = Head(chunk).text
            /\ ~isStreaming'
            /\ currentResponse' = ""
            /\ currentThinking' = ""
            /\ toolCalls' = <<>>]_vars

C3_Witness ==
  /\ last.op = "readChunk"
  /\ last.calls = <<"onError">>
  /\ seen # <<>>
  /\ Len(Messages) = 2
  /\ Messages[2].status = "error"
  /\ Messages[2].content = "slow down"
  /\ ~isStreaming

\* C4 (as claimed): every failed generation attempt (an error event, or a
\* fetch or read that fails) appends exactly one error-status assistant
\* message and leaves the engine idle, and retryFromMessage on the index of
\* an error message is accepted.
C4_OneErrorPerFailure ==
  [][/\ ( /\ ~conversation.isNull
          /\ \/ last'.op \in {"fetchFails", "readFails"}
             \/ /\ last'.op = "readChunk"
                /\ \E c \in 1..Len(conns), chunk \in Chunks :
                     Head(chunk).type = "error" /\ ReadChunk(c, chunk) )
        => /\ Len(conversation'.messages) = Len(Messages) + 1
           /\ conversation'.messages[Len(Messages) + 1].status = "error"
           /\ ~isStreaming'
     /\ \A index \in 0..(Len(Messages) - 1) :
          ( /\ last'.op = "retryFromMessage"
            /\ ~isStreaming
            /\ Messages[index + 1].status = "error"
            /\ retryFromMessage(index) )
          => last'.accepted /\ isStreaming']_vars

C6_CancelledStreamSilent ==
  [][last'.op = "abortUnwinds" => UNCHANGED <<engine, status>>]_vars

\* C7 (as claimed): every tool_result message has exactly one tool_call
\* message with its tool_call_id, and that message is earlier in the list.
C7_ToolPairing ==
  \A i \in 1..Len(Messages) :
    Messages[i].role = "tool_result" =>
      LET calls == {j \in 1..Len(Messages) :
                      /\ Messages[j].role = "tool_call"
                      /\ Messages[j].tool_call_id = Messages[i].tool_call_id}
      IN Cardinality(calls) = 1 /\ \A j \in calls : j < i

\* C8: a tool_result event whose id matches no pending tool call changes
\* nothing (pending calls, session, connection), and the tool messages a
\* later complete event produces are those of tool_call events only.
C8_UnknownToolResultDropped ==
  [][/\ Handled("onToolResult") =>
          \A c \in 1..Len(conns), chunk \in ToolResultChunks :
            (ReadChunk(c, chunk) /\ ~MapHas(toolCalls, Head(chunk).id))
              => UNCHANGED <<engine, transport>>
     /\ (Handled("onComplete") /\ ~conversation.isNull) =>
          \A i \in (Len(Messages) + 1)..Len(conversation'.messages) :
            conversation'.messages[i].role \in {"tool_call", "tool_result"}
              => \E k \in 1..Len(seen) : seen[k] = conversation'.messages[i].tool_call_id]_vars

C8_Witness ==
  /\ last.op = "readChunk"
  /\ last.calls = <<"onToolResult">>
  /\ toolCalls = <<>>
  /\ isStreaming
  /\ \E c \in 1..Len(conns) : conns[c] = "read"

\* C9 (as claimed): message_count is the length of the message list.
C9_MessageCount ==
  ~conversation.isNull => conversation.message_count = Len(Messages)

\* C10: total_tokens is the sum of prompt_tokens + completion_tokens over the
\* complete events the conversation has received since it was created; only
\* the handling of a complete event changes it, and it never decreases.
C10_TotalTokens ==
  /\ [](~conversation.isNull => conversation.total_tokens = tokenSum)
  /\ [][(~conversation.isNull /\ ~conversation'.isNull /\ last'.op # "createConversation")
          => /\ conversation'.total_tokens >= conversation.total_tokens
             /\ ~Handled("onComplete")
                  => conversation'.total_tokens = conversation.total_tokens]_vars

C10_Witness ==
  /\ last.op = "deleteMessagesFrom"
  /\ ~conversation.isNull
  /\ Messages = <<>>
  /\ conversation.total_tokens = 6

\* the user and assistant messages of a list, as role and content
RECURSIVE Turns(_)
Turns(msgs) ==
  IF msgs = <<>> THEN <<>>
  ELSE (IF Head(msgs).role \in {"user", "assistant"}
          THEN <<[role |-> Head(msgs).role, content |-> Head(msgs).content]>>
          ELSE <<>>) \o Turns(Tail(msgs))

\* C21: the request a send issues carries as messages the user and assistant
\* messages the conversation held before the call, in their order, as role
\* and content: no tool message and not the user message the call appends;
\* user_message is the content of that new message.
C21_RequestHistory ==
  [][(last'.op \in {"sendMessage", "retryFromMessage"} /\ last'.accepted) =>
       LET after == conversation'.messages
           prior == SubSeq(after, 1, Len(after) - 1)
           body == last'.fetch.body
       IN /\ last'.fetch.issued
          /\ last'.op = "sendMessage" => prior = Messages
          /\ body.messages = Turns(prior)
          /\ body.user_message = after[Len(after)].content]_vars

C21_Witness ==
  /\ last.op = "sendMessage"
  /\ last.accepted
  /\ Len(Messages) = 5
  /\ Messages[2].role = "tool_call"
  /\ Messages[3].role = "tool_result"
  /\ Messages[4].role = "assistant"
  /\ Len(last.fetch.body.messages) = 2
  /\ last.fetch.body.messages[2].role = "assistant"

\* C22 (as claimed): the request a send issues carries every header
\* keys.getHeaders() returned to it, with Content-Type: application/json and
\* Accept: text/event-stream.
C22_CredentialHeadersSent ==
  [][last'.fetch.issued =>
       /\ last'.supplied \subseteq last'.fetch.headers
       /\ {<<"Content-Type", "application/json">>, <<"Accept", "text/event-stream">>}
            \subseteq last'.fetch.headers]_vars

\* C11: however the body is cut into chunks, the handler calls made (handler
\* and payload, in order) are at every moment a prefix of, and once the loop
\* has returned or the body is read entirely equal to, the calls made when
\* the whole body arrives as a single chunk.
C11_ChunkingInvisible ==
  LET whole == ReadLoopBody(NewReader, wire).dispatched
  IN /\ Len(dispatched) <= Len(whole)
     /\ dispatched = SubSeq(whole, 1, Len(dispatched))
     /\ (ended \/ offset = Len(wire)) => dispatched = whole

\* one event dispatched, the next one cut between its \r and \n
C11_Witness ==
  /\ Len(dispatched) = 1
  /\ dispatched[1].handler = "onToken"
  /\ currentEventType = <<"c", "o", "m", "p", "l", "e", "t", "e">>
  /\ buffer = DataField \o <<" ", "1", "\r">>
  /\ ~ended

\* C12: debugEvents never holds more than 100 entries, and they are the
\* most recent min(N, 100) of the N events recorded since the last clear, in
\* the order they were recorded.
C12_DebugBufferBounded ==
  LET n == Len(recorded)
      k == IF n < 100 THEN n ELSE 100
  IN /\ Len(debugEvents) <= 100
     /\ Len(debugEvents) = k
     /\ \A i \in 1..k : debugEvents[i].id = recorded[n - k + i]

C12_Witness ==
  /\ Len(recorded) = 102
  /\ eventIdCounter = 103
  /\ Len(debugEvents) = 100
  /\ debugEvents[1].id = 3
  /\ debugEvents[100].id = 102

TokenChunks == ChunksOf("token")
ThinkingChunks == ChunksOf("thinking")

\* C23 (as claimed): the handling of a token event appends the event's token
\* delta to currentResponse, and that of a thinking event appends its content
\* delta to currentThinking, so that each is the concatenation of the deltas.
C23_AppendsDeltas ==
  [][/\ Handled("onToken") =>
          \A c \in 1..Len(conns), chunk \in TokenChunks :
            ReadChunk(c, chunk) => currentResponse' = currentResponse \o Head(chunk).delta
     /\ Handled("onThinking") =>
          \A c \in 1..Len(conns), chunk \in ThinkingChunks :
            ReadChunk(c, chunk) => currentThinking' = currentThinking \o Head(chunk).delta]_vars

\* C23 (amended): currentResponse is the cumulative field of the token event
\* handled last in the generation, currentThinking that of the thinking
\* event handled last; they are empty before the first such event, and no
\* other step changes them except to empty them.
C23_TakesCumulative ==
  [][/\ Handled("onToken") =>
          \A c \in 1..Len(conns), chunk \in TokenChunks :
            ReadChunk(c, chunk)
              => currentResponse' = Head(chunk).text /\ currentThinking' = currentThinking
     /\ Handled("onThinking") =>
          \A c \in 1..Len(conns), chunk \in ThinkingChunks :
            ReadChunk(c, chunk)
              => currentThinking' = Head(chunk).text /\ currentResponse' = currentResponse
     /\ currentResponse' # currentResponse => Handled("onToken") \/ currentResponse' = ""
     /\ currentThinking' # currentThinking => Handled("onThinking") \/ currentThinking' = ""
     /\ (last'.op \in {"sendMessage", "retryFromMessage"} /\ last'.accepted)
          => currentResponse' = "" /\ currentThinking' = ""]_vars

\* a second token event has replaced the text of the first
C23_Witness ==
  /\ last.op = "readChunk"
  /\ last.calls = <<"onToken">>
  /\ currentResponse = "Hi"
  /\ currentThinking = "hm"
  /\ nReads = 4
  /\ isStreaming

\* C24 (as claimed): an entry of the pending tool calls that a tool_result
\* event has marked complete keeps its status and the result attached to it
\* through every later event of the generation.
C24_ToolStatusAdvances ==
  [][(last'.op = "readChunk" /\ ~last'.accepted) =>
       \A i \in 1..Len(toolCalls) :
         toolCalls[i].status = "complete"
           => /\ MapHas(toolCalls', toolCalls[i].id)
              /\ toolCalls'[MapIndex(toolCalls', toolCalls[i].id)] = toolCalls[i]]_vars

\* the chunks whose first event carries a payload JSON.parse rejects
MalformedChunks == {chunk \in Chunks : ~Head(chunk).ok}

\* the chunks that open with a decodable complete or error event
TerminalChunks == CompleteChunks \cup ErrorChunks

\* the handler handleSSEEvent invokes for a decodable event of the type
HandlerOf(type) == IF type = "complete" THEN "onComplete" ELSE "onError"

\* C13 (as claimed): an event of any type whose payload cannot be decoded
\* invokes no handler and does not end the connection: the connection goes
\* on reading the stream.
C13_MalformedDropped ==
  [][last'.op = "readChunk" =>
       \A c \in 1..Len(conns), chunk \in MalformedChunks :
         ReadChunk(c, chunk) => last'.calls = <<>> /\ conns'[c] = "read"]_vars

\* C14 (as claimed): when the POST is answered with a non-success status or
\* without a body, onError is invoked once, no other handler is, and the
\* transport status returns to disconnected.
C14_SetupFailureDisconnects ==
  [][last'.op = "fetchFails" =>
       \A c \in 1..Len(conns), why \in {HttpError, NullBody} :
         FetchFails(c, why) => last'.calls = <<"onError">> /\ status' = "disconnected"]_vars

\* C15: a connection that has dispatched a complete or error event has
\* returned: the chunk's later events invoke no handler, the status is
\* disconnected, the connection never leaves its final position, and every
\* handler call is made by a connection that has not ended.
C15_TerminalEndsConnection ==
  [][/\ \A c \in 1..Len(conns) : conns[c] = "done" => conns'[c] = "done"
     /\ last'.calls # <<>> =>
          \E c \in 1..Len(conns) :
            \/ conns[c] \in {"fetch", "read"} /\ conns'[c] = "done"
            \/ conns[c] = "read" /\ conns'[c] = "read"
     /\ (last'.op = "readChunk" /\ last'.accepted) =>
          \A c \in 1..Len(conns), chunk \in TerminalChunks :
            ReadChunk(c, chunk)
              => /\ last'.calls = <<HandlerOf(Head(chunk).type)>>
                 /\ conns'[c] = "done"
                 /\ status' = "disconnected"]_vars

C15_Witness ==
  /\ last.op = "readChunk"
  /\ last.calls = <<"onComplete">>
  /\ status = "disconnected"
  /\ currentResponse = ""
  /\ Len(conns) = 2
  /\ \A c \in 1..Len(conns) : conns[c] = "done"

\* C16 (as claimed): once the connections of all generations have ended,
\* whatever ended them, isStreaming is false (so that sendMessage is
\* accepted again).
C16_ReturnsToIdle ==
  (\A c \in 1..Len(conns) : conns[c] = "done") => ~isStreaming

\* C17 (as claimed): the status becomes connected only from connecting, and
\* it is not disconnected while the connection started last is still
\* connecting or connected.
C17_StatusPath ==
  [][/\ (status' = "connected" /\ status # "connected") => status = "connecting"
     /\ (conns' # <<>> /\ conns'[Len(conns')] \in {"fetch", "read"})
          => status' # "disconnected"]_vars

\* the 0-based index of the nearest user message at or before index, -1 when
\* there is none
NearestUser(msgs, index) ==
  LET at == {k \in 0..(Len(msgs) - 1) : k <= index /\ msgs[k + 1].role = "user"}
  IN IF at = {} THEN -1 ELSE CHOOSE k \in at : \A j \in at : j <= k

\* C18 (as claimed): with no generation in progress and a user message at or
\* before index, retryFromMessage(index) keeps the messages before the
\* nearest such user message, replaces the rest by a new user message of the
\* same content and starts a generation.
C18_RetryResends ==
  [][last'.op = "retryFromMessage" =>
       \A index \in -1..Len(Messages) :
         ( /\ retryFromMessage(index)
           /\ ~conversation.isNull
           /\ ~isStreaming
           /\ NearestUser(Messages, index) >= 0 )
           => LET u == NearestUser(Messages, index)
              IN /\ conversation'.messages =
                      SubSeq(Messages, 1, u) \o <<UserMessage(Messages[u + 1].content)>>
                 /\ isStreaming'
                 /\ Cardinality(ActiveConns') = 1]_vars

\* C19 (as claimed): for any index, retryFromMessage(index) raises no error
\* and changes nothing when a generation is in progress or no user message
\* exists at or before index.
C19_RetrySilent ==
  [][last'.op = "retryFromMessage" =>
       \A index \in -1..Len(Messages) :
         ( /\ retryFromMessage(index)
           /\ (isStreaming \/ NearestUser(Messages, index) < 0) )
           => last'.error = "" /\ UNCHANGED <<engine, transport>>]_vars

\* C20: deleteMessagesFrom(index), 0 <= index <= length, leaves exactly the
\* first index messages as they were, sets message_count to index and
\* touches neither total_tokens, the stream session nor the transport; with
\* no conversation it changes nothing.
C20_DeleteTruncates ==
  [][last'.op = "deleteMessagesFrom" =>
       \A index \in 0..Len(Messages) :
         deleteMessagesFrom(index)
           => IF conversation.isNull
                THEN UNCHANGED <<engine, transport>>
                ELSE /\ Len(conversation'.messages) = index
                     /\ \A i \in 1..index : conversation'.messages[i] = Messages[i]
                     /\ conversation'.message_count = index
                     /\ conversation'.total_tokens = conversation.total_tokens
                     /\ UNCHANGED <<isStreaming, currentResponse, currentThinking,
                                    toolCalls, transport>>]_vars

C20_Witness ==
  /\ last.op = "deleteMessagesFrom"
  /\ last.accepted
  /\ Len(Messages) = 1
  /\ Messages[1].role = "user"
  /\ conversation.message_count = 1
  /\ conversation.total_tokens = 6


\* the seven event types handleSSEEvent has a case for
RecognisedTypes ==
  {"token", "thinking", "tool_call", "tool_result", "complete", "error", "ping"}

\* the handler of each recognised type
HandlerName(type) ==
  CASE type = "token" -> "onToken"
    [] type = "thinking" -> "onThinking"
    [] type = "tool_call" -> "onToolCall"
    [] type = "tool_result" -> "onToolResult"
    [] type = "complete" -> "onComplete"
    [] type = "error" -> "onError"
    [] type = "ping" -> "onPing"

OtherChunks == {chunk \in Chunks : Head(chunk) \in OtherEvents}

\* C26: an event of an unrecognised type is ignored: no handler is invoked
\* and no debug entry is recorded for it, the engine and the transport
\* status are left as they were and the connection keeps reading; the events
\* that follow it are dispatched as if it had not been there.
C26_UnknownTypeIgnored ==
  [][(last'.op = "readChunk" /\ last'.skipped # <<>>) =>
       \A c \in 1..Len(conns), chunk \in OtherChunks :
         ReadChunk(c, chunk) =>
           IF Len(chunk) = 1
             THEN /\ last'.trace = <<>>
                  /\ ~last'.accepted
                  /\ conns'[c] = "read"
                  /\ UNCHANGED <<engine, transport, debugging>>
             ELSE LET r == ProcessChunk(EngineState, Tail(chunk))
                  IN /\ SetEngine(r.es)
                     /\ last'.trace = r.es.trace
                     /\ last'.accepted = r.end
                     /\ UNCHANGED debugging
                     /\ IF r.end
                          THEN conns'[c] = "done" /\ status' = "disconnected"
                          ELSE UNCHANGED transport]_vars

\* a token event framed behind an event of an unknown type was handled
C26_Witness ==
  /\ last.op = "readChunk"
  /\ last.skipped = <<"metrics">>
  /\ last.trace = <<"addDebugEvent", "onToken">>
  /\ currentResponse = "Hi!"
  /\ \E c \in 1..Len(conns) : conns[c] = "read"


\* The id of the message at position i: msg_tc_<tool call id> and
\* msg_tr_<tool call id> for the tool messages onComplete pushes; the ids
\* made of Date.now() (user, assistant and error messages) are taken to be
\* distinct from each other, the clock having advanced between them.
MessageId(msgs, i) ==
  CASE msgs[i].role = "tool_call" -> <<"msg_tc_", msgs[i].tool_call_id>>
    [] msgs[i].role = "tool_result" -> <<"msg_tr_", msgs[i].tool_call_id>>
    [] OTHER -> <<"msg_", i>>

\* C27 (as claimed): the ids of the messages of the conversation are
\* pairwise distinct.
C27_IdsDistinct ==
  \A i, j \in 1..Len(Messages) :
    i # j => MessageId(Messages, i) # MessageId(Messages, j)


\* C28 (as claimed): whenever no generation is streaming, the accumulated
\* response and thinking texts are empty and there are no pending tool calls.
C28_IdleAccumulatorsEmpty ==
  ~isStreaming => (currentResponse = "" /\ currentThinking = "" /\ toolCalls = <<>>)


\* a generation that had a pending tool call was cancelled
C28_Witness ==
  /\ last.op = "cancelGeneration"
  /\ last.accepted
  /\ seen # <<>>
  /\ ~isStreaming
  /\ toolCalls = <<>>


\* the steps in which onComplete or onError runs for the generation
Delivers == last'.op \in {"readChunk", "fetchFails", "readFails"}

\* C29 (as claimed): what a generation produces, messages and token count,
\* is applied only to the conversation in which its sendMessage was called:
\* a conversation created (or the absence left by a deletion) while the
\* stream is open receives nothing.
C29_AppliedToOwnConversation ==
  [][(Delivers /\ ~origin.same) => conversation' = conversation]_vars

\* C30 (as claimed): whenever a generation appends its messages to the
\* conversation it was started in, its own user message is still in the
\* list, at the position it was pushed to, and the messages go after it.
C30_AppendedAfterOwnUserMessage ==
  [][(Delivers /\ origin.same /\ Len(conversation'.messages) > Len(Messages)) =>
       /\ origin.at <= Len(Messages)
       /\ Messages[origin.at].role = "user"
       /\ SubSeq(conversation'.messages, 1, Len(Messages)) = Messages]_vars

====
